---- MODULE Spec2Model ----
(***************************************************************************)
(* A model of datanorm_writer: the field descriptors and their process     *)
(* methods, the schema registrar (get_declared_fields), the row encoder    *)
(* (RowBase.output), the charset encoder (normalize_and_encode), the text  *)
(* chunker (chunk_text) and the header row (VorlaufZeile).                 *)
(*                                                                         *)
(* Text is a sequence of one-character strings.  A Python value is a       *)
(* record [t, s, n, dt]: its type tag, its text (str), its number (int)    *)
(* and its <<year, month, day>> (date, datetime, object holding a date).   *)
(***************************************************************************)
EXTENDS Integers, Sequences, FiniteSets, TLC

\* ------------------------------------------------------------------------
\* Bounds of the model
\* ------------------------------------------------------------------------

\* largest fixed length / max_length a checked field is configured with
MaxFieldLen == 2

\* longest raw text handed to a field
MaxTextLen == 2

\* ------------------------------------------------------------------------
\* Python values
\* ------------------------------------------------------------------------

\* None where the code holds an optional int (length, max_length, index)
NoneInt == -1

\* None where the code holds an optional label (name, field_name)
NoneName == <<"<None>">>

PyNone == [t |-> "none", s |-> <<>>, n |-> 0, dt |-> <<>>]

PyStr(s) == [t |-> "str", s |-> s, n |-> 0, dt |-> <<>>]

PyInt(n) == [t |-> "int", s |-> <<>>, n |-> n, dt |-> <<>>]

\* datetime.date(y, m, d)
PyDate(dt) == [t |-> "date", s |-> <<>>, n |-> 0, dt |-> dt]

\* datetime.datetime(y, m, d): its attribute `date` is a bound method
PyDateTime(dt) == [t |-> "datetime", s |-> <<>>, n |-> 0, dt |-> dt]

\* an object whose attribute `date` holds a datetime.date
PyHolder(dt) == [t |-> "holder", s |-> <<>>, n |-> 0, dt |-> dt]

\* the bound method datetime.date, as read (not called) by `value.date`
PyMethod == [t |-> "method", s |-> <<>>, n |-> 0, dt |-> <<>>]

\* Python truth value of a value (`not value`, `value or ""`)
Truthy(v) ==
    CASE v.t = "none" -> FALSE
      [] v.t = "str" -> v.s # <<>>
      [] v.t = "int" -> v.n # 0
      [] OTHER -> TRUE

\* truth value of an optional int (`if self.length`): None and 0 are false
IntTruthy(i) == i # NoneInt /\ i # 0

DigitChars == <<"0", "1", "2", "3", "4", "5", "6", "7", "8", "9">>

RECURSIVE Digits(_)
\* decimal digits of a natural number
Digits(n) ==
    IF n < 10 THEN <<DigitChars[n + 1]>>
    ELSE Digits(n \div 10) \o <<DigitChars[(n % 10) + 1]>>

RECURSIVE Zeros(_)
Zeros(k) == IF k <= 0 THEN <<>> ELSE <<"0">> \o Zeros(k - 1)

\* "%d" % (n,)
FormatD(n) == IF n < 0 THEN <<"-">> \o Digits(-n) ELSE Digits(n)

\* "%0*d" % (w, n): the sign first, then zeros up to a total width of w;
\* a number wider than w is printed in full
FormatZeroD(w, n) ==
    LET sign == IF n < 0 THEN <<"-">> ELSE <<>>
        digs == Digits(IF n < 0 THEN -n ELSE n)
    IN  sign \o Zeros(w - Len(sign) - Len(digs)) \o digs

\* str(date): ISO format YYYY-MM-DD
IsoDate(dt) ==
    FormatZeroD(4, dt[1]) \o <<"-">> \o FormatZeroD(2, dt[2]) \o <<"-">>
        \o FormatZeroD(2, dt[3])

\* str(value) as StringField.process applies it
PyStrOf(v) ==
    CASE v.t = "str" -> v.s
      [] v.t = "int" -> FormatD(v.n)
      [] v.t = "date" -> IsoDate(v.dt)
      [] v.t = "datetime" ->
            IsoDate(v.dt) \o <<" ", "0", "0", ":", "0", "0", ":", "0", "0">>
      [] v.t = "none" -> <<"N", "o", "n", "e">>
      [] OTHER -> <<"<", "o", "b", "j", "e", "c", "t", ">">>

RECURSIVE ReplaceChar(_, _, _)
\* str.replace(old, new) for one-character old and new
ReplaceChar(text, old, new) ==
    IF text = <<>> THEN <<>>
    ELSE <<IF Head(text) = old THEN new ELSE Head(text)>>
            \o ReplaceChar(Tail(text), old, new)

\* ------------------------------------------------------------------------
\* Field descriptors
\* ------------------------------------------------------------------------

\* self.values is None
NoValues == [none |-> TRUE, elems |-> {}]

\* a tuple or list of allowed values
ValuesOf(S) == [none |-> FALSE, elems |-> S]

\* truth value of self.values: None and the empty tuple are false
ValuesTruthy(vs) == ~vs.none /\ vs.elems # {}

\* a descriptor that could not be constructed (the constructor raised)
NoField == [kind |-> "none"]

\* FieldBase.__init__: rejects length != max_length, takes the next creation
\* sequence number; `values` and `static_value` are set by the subclass
FieldBase_init(kind, kw, values, static_value, cc) ==
    IF IntTruthy(kw.length) /\ IntTruthy(kw.max_length)
            /\ kw.length # kw.max_length
    THEN NoField
    ELSE [kind |-> kind,
          creation_counter |-> cc,
          length |-> kw.length,
          max_length |-> kw.max_length,
          name |-> kw.name,
          required |-> kw.required,
          index |-> kw.index,
          blank |-> kw.blank,
          field_name |-> NoneName,
          _value |-> PyNone,
          values |-> values,
          static_value |-> static_value]

\* StringField.__init__: the `values` argument is dropped, self.values = None
StringField_init(kw, cc) ==
    FieldBase_init("string", kw, NoValues, <<>>, cc)

\* IntegerField.__init__: keeps the `values` argument
IntegerField_init(kw, cc) ==
    FieldBase_init("integer", kw, kw.values, <<>>, cc)

\* ShortDateField.__init__: length 6
ShortDateField_init(kw, cc) ==
    FieldBase_init("shortdate", [kw EXCEPT !.length = 6], NoValues, <<>>, cc)

\* DateField.__init__: length 8
DateField_init(kw, cc) ==
    FieldBase_init("date", [kw EXCEPT !.length = 8], NoValues, <<>>, cc)

\* CurrencyField.__init__: length 3
CurrencyField_init(kw, cc) ==
    FieldBase_init("currency", [kw EXCEPT !.length = 3], NoValues, <<>>, cc)

\* StaticField.__init__: length is the length of the constant
StaticField_init(kw, cc) ==
    FieldBase_init("static", [kw EXCEPT !.length = Len(kw.static_value)],
                   NoValues, kw.static_value, cc)

\* the constructor of each field kind
Construct(kind, kw, cc) ==
    CASE kind = "string" -> StringField_init(kw, cc)
      [] kind = "integer" -> IntegerField_init(kw, cc)
      [] kind = "shortdate" -> ShortDateField_init(kw, cc)
      [] kind = "date" -> DateField_init(kw, cc)
      [] kind = "currency" -> CurrencyField_init(kw, cc)
      [] kind = "static" -> StaticField_init(kw, cc)

\* ------------------------------------------------------------------------
\* process: the result is the returned text or the class of the exception
\* ------------------------------------------------------------------------

Ok(text) == [st |-> "ok", text |-> text]

Raise(cls) == [st |-> cls, text |-> <<>>]

\* process was not called
NotRun == [st |-> "notrun", text |-> <<>>]

StringField_process(self, value) ==
    IF ~Truthy(value) /\ self.blank THEN Ok(<<>>)
    ELSE IF ~Truthy(value) /\ self.required THEN Raise("ValueError")
    ELSE IF ValuesTruthy(self.values) /\ value \notin self.values.elems
        THEN Raise("ValueError")
    ELSE IF value = PyNone /\ IntTruthy(self.length) THEN Raise("ValueError")
    ELSE LET text == IF Truthy(value) THEN PyStrOf(value) ELSE <<>>
         IN  IF IntTruthy(self.length) /\ Len(text) # self.length
                THEN Raise("ValueError")
             ELSE IF IntTruthy(self.max_length) /\ Len(text) > self.max_length
                THEN Raise("ValueError")
             ELSE Ok(ReplaceChar(text, "\n", " "))

IntegerField_process(self, value) ==
    IF self.blank /\ value = PyNone THEN Ok(<<>>)
    ELSE IF value = PyNone /\ IntTruthy(self.length) THEN Raise("ValueError")
    ELSE IF ValuesTruthy(self.values) /\ value \notin self.values.elems
        THEN Raise("ValueError")
    ELSE IF IntTruthy(self.length)
        THEN IF value.t = "int" THEN Ok(FormatZeroD(self.length, value.n))
             ELSE Raise("ValueError")   \* TypeError caught and re-raised
    ELSE IF value = PyNone THEN Ok(<<>>)
    ELSE IF value.t # "int" THEN Raise("TypeError")   \* "%d" % (value,)
    ELSE IF self.max_length = NoneInt
        THEN Raise("TypeError")         \* len(as_bytes) > None
    ELSE IF Len(FormatD(value.n)) > self.max_length THEN Raise("ValueError")
    ELSE Ok(FormatD(value.n))

\* `if hasattr(value, "date"): value = value.date`
DateAttr(value) ==
    CASE value.t = "datetime" -> PyMethod
      [] value.t = "holder" -> PyDate(value.dt)
      [] OTHER -> value

\* two-digit year of strftime("%y")
YearOfCentury(y) == y % 100

ShortDateField_process(self, value) ==
    IF ~Truthy(value) /\ self.blank THEN Ok(<<>>)
    ELSE IF value = PyNone THEN Raise("ValueError")
    ELSE LET v == DateAttr(value)
         IN  IF v.t # "date" THEN Raise("AttributeError")  \* no strftime
             ELSE StringField_process(self,
                    PyStr(FormatZeroD(2, v.dt[3]) \o FormatZeroD(2, v.dt[2])
                          \o FormatZeroD(2, YearOfCentury(v.dt[1]))))

DateField_process(self, value) ==
    IF ~Truthy(value) /\ self.blank THEN Ok(<<>>)
    ELSE IF value = PyNone THEN Raise("ValueError")
    ELSE LET v == DateAttr(value)
         IN  IF v.t # "date" THEN Raise("AttributeError")  \* no year
             ELSE StringField_process(self,
                    PyStr(FormatZeroD(4, v.dt[1]) \o FormatZeroD(2, v.dt[2])
                          \o FormatZeroD(2, v.dt[3])))

StaticField_process(self, value) ==
    IF value # PyNone /\ value # PyStr(self.static_value)
    THEN Raise("ValueError")
    ELSE Ok(self.static_value)

\* field.process(value), dispatched on the descriptor's class
Process(self, value) ==
    CASE self.kind = "string" -> StringField_process(self, value)
      [] self.kind = "currency" -> StringField_process(self, value)
      [] self.kind = "integer" -> IntegerField_process(self, value)
      [] self.kind = "shortdate" -> ShortDateField_process(self, value)
      [] self.kind = "date" -> DateField_process(self, value)
      [] self.kind = "static" -> StaticField_process(self, value)

\* ------------------------------------------------------------------------
\* Charset table and charset encoder
\* ------------------------------------------------------------------------

\* Characters outside ASCII are named by their code point.  Bytes are named
\* by the ASCII character they stand for, or "x81" for the byte 0x81.
UpperLetters ==
    <<"A", "B", "C", "D", "E", "F", "G", "H", "I", "J", "K", "L", "M",
      "N", "O", "P", "Q", "R", "S", "T", "U", "V", "W", "X", "Y", "Z">>

LowerLetters ==
    <<"a", "b", "c", "d", "e", "f", "g", "h", "i", "j", "k", "l", "m",
      "n", "o", "p", "q", "r", "s", "t", "u", "v", "w", "x", "y", "z">>

\* the image of a sequence
Range(f) == {f[i] : i \in DOMAIN f}

valid_ascii_characters ==
    {"\t", " ", "!", "\"", "#", "$", "%", "&", "'", "(", ")", "*", "+", ",",
     "-", ".", "/", ":", "<", "=", ">", "?", "@", "^", "_", "[", "]"}
        \cup Range(DigitChars) \cup Range(UpperLetters)
        \cup Range(LowerLetters)

\* the umlauts and the sharp s, by code point, with their DATANORM bytes
custom_characters ==
    [c \in {"U+00FC", "U+00F6", "U+00E4", "U+00DC", "U+00C4", "U+00D6",
            "U+00DF"} |->
        CASE c = "U+00FC" -> <<"x81">>
          [] c = "U+00F6" -> <<"x94">>
          [] c = "U+00E4" -> <<"x84">>
          [] c = "U+00DC" -> <<"x9a">>
          [] c = "U+00C4" -> <<"x8e">>
          [] c = "U+00D6" -> <<"x99">>
          [] c = "U+00DF" -> <<"xe1">>]

\* the default charset: ASCII characters map to themselves
charset_translations ==
    [c \in valid_ascii_characters \cup DOMAIN custom_characters |->
        IF c \in DOMAIN custom_characters THEN custom_characters[c]
        ELSE <<c>>]

\* the combining diaeresis
Diaeresis == "U+0308"

\* the letters that have a precomposed form with a diaeresis
DiaeresisBases ==
    <<"A", "E", "H", "I", "O", "U", "W", "X", "Y", "a",
      "e", "h", "i", "o", "t", "u", "w", "x", "y">>

\* their precomposed forms, by code point
DiaeresisForms ==
    <<"U+00C4", "U+00CB", "U+1E26", "U+00CF", "U+00D6",
      "U+00DC", "U+1E84", "U+1E8C", "U+0178", "U+00E4",
      "U+00EB", "U+1E27", "U+00EF", "U+00F6", "U+1E97",
      "U+00FC", "U+1E85", "U+1E8D", "U+00FF">>

\* the precomposed letter of a base letter followed by a combining diaeresis
Precomposed ==
    [c \in Range(DiaeresisBases) |->
        DiaeresisForms[CHOOSE i \in DOMAIN DiaeresisBases :
                            DiaeresisBases[i] = c]]

\* compatibility decomposition of one character: the ligature fi (U+FB01)
\* is the letters f and i, superscript two (U+00B2) is the digit 2, a
\* precomposed umlaut is its base letter and a combining diaeresis
DecomposeChar(c) ==
    CASE c = "U+FB01" -> <<"f", "i">>
      [] c = "U+00B2" -> <<"2">>
      [] c \in Range(Precomposed) ->
            <<CHOOSE b \in DOMAIN Precomposed : Precomposed[b] = c, Diaeresis>>
      [] OTHER -> <<c>>

RECURSIVE Decompose(_)
Decompose(text) ==
    IF text = <<>> THEN <<>>
    ELSE DecomposeChar(Head(text)) \o Decompose(Tail(text))

RECURSIVE Compose(_)
\* canonical composition: a base letter and a following diaeresis become the
\* precomposed letter
Compose(text) ==
    IF Len(text) < 2 THEN text
    ELSE IF Head(text) \in DOMAIN Precomposed /\ text[2] = Diaeresis
        THEN <<Precomposed[Head(text)]>> \o Compose(Tail(Tail(text)))
    ELSE <<Head(text)>> \o Compose(Tail(text))

\* unicodedata.normalize("NFKC", text)
normalize(text) == Compose(Decompose(text))

\* charset.get(x, b"?"): a replacement byte for a character without bytes
CharsetGet_Replacing(charset, x) ==
    IF x \in DOMAIN charset THEN charset[x] ELSE <<"?">>

\* charset.get(x, b"")
CharsetGet(charset, x) == IF x \in DOMAIN charset THEN charset[x] ELSE <<>>

RECURSIVE JoinBytes(_, _)
\* b"".join(charset.get(x, b"") for x in value)
JoinBytes(charset, value) ==
    IF value = <<>> THEN <<>>
    ELSE CharsetGet(charset, Head(value)) \o JoinBytes(charset, Tail(value))

\* the characters normalize_and_encode reports: set(value) - set(charset.keys())
InvalidChars(charset, value) == Range(normalize(value)) \ DOMAIN charset

\* the messages logger.error receives for one call: none or one
EncodeLog(charset, value, field_name) ==
    IF InvalidChars(charset, value) = {} THEN {}
    ELSE {[invalid |-> InvalidChars(charset, value), field |-> field_name]}

\* normalize_and_encode(charset, value, field_name): the bytes returned
normalize_and_encode(charset, value) == JoinBytes(charset, normalize(value))

\* ------------------------------------------------------------------------
\* State
\* ------------------------------------------------------------------------

VARIABLES
    fdecl,              \* field under check: its class and constructor arguments
    fld,                \* field under check: the constructed descriptor
    raw,                \* field under check: the raw value handed to process
    res,                \* field under check: what process returned or raised
    creation_counter,   \* FieldBase.creation_counter
    pool,               \* descriptors constructed and not yet class attributes
    attrs,              \* the class body being declared: (field_name, field)
    def,                \* the declared row class
    rows,               \* the row instances
    log,                \* the messages logger.error received
    enc_charset,        \* charset encoder: the table
    enc_value,          \* charset encoder: the text
    enc_out,            \* charset encoder: what it returned or raised
    ck_text,            \* chunk_text: argument text
    chunk_size,         \* chunk_text: argument chunk_size
    split_char,         \* chunk_text: argument split_char
    lines,              \* chunk_text: the lines not yet looped over
    line,               \* chunk_text: the loop variable line
    chunks,             \* chunk_text: the list chunks
    pc                  \* chunk_text: position in the function

fieldVars == <<fdecl, fld, raw, res>>

rowVars == <<creation_counter, pool, attrs, def, rows>>

encVars == <<enc_charset, enc_value, enc_out>>

chunkVars == <<ck_text, chunk_size, split_char, lines, line, chunks, pc>>

vars == <<fieldVars, rowVars, log, encVars, chunkVars>>

\* the keyword arguments of a field constructor left at their defaults
DefaultKw ==
    [length |-> NoneInt, max_length |-> NoneInt, name |-> NoneName,
     index |-> NoneInt, blank |-> FALSE, required |-> FALSE,
     values |-> NoValues, static_value |-> <<>>]

\* no row class declared yet
NoDef == [declared |-> FALSE, base_fields |-> <<>>, separator |-> <<>>,
          charset |-> <<>>, header |-> FALSE]

\* the values the variables of the other specifications rest at
FieldIdle ==
    /\ fdecl = [kind |-> "string", kw |-> DefaultKw]
    /\ fld = NoField
    /\ raw = PyNone
    /\ res = NotRun

RowIdle ==
    /\ creation_counter = 0
    /\ pool = <<>>
    /\ attrs = <<>>
    /\ def = NoDef
    /\ rows = <<>>

EncIdle ==
    /\ enc_charset = <<>>
    /\ enc_value = <<>>
    /\ enc_out = NotRun

ChunkIdle ==
    /\ ck_text = <<>>
    /\ chunk_size = 1
    /\ split_char = " "
    /\ lines = <<>>
    /\ line = <<>>
    /\ chunks = <<>>
    /\ pc = "idle"

\* ------------------------------------------------------------------------
\* SpecField: one field descriptor, constructed and asked to process a value
\* ------------------------------------------------------------------------

RECURSIVE TextsUpTo(_, _)
\* the texts over an alphabet of at most n characters
TextsUpTo(alphabet, n) ==
    IF n = 0 THEN {<<>>}
    ELSE TextsUpTo(alphabet, n - 1)
            \cup {<<c>> \o t : c \in alphabet, t \in
                    {u \in TextsUpTo(alphabet, n - 1) : Len(u) = n - 1}}

\* lengths a field is configured with: None or 1..MaxFieldLen
FieldLens == {NoneInt} \cup (1..MaxFieldLen)

FieldKwChoices(lens, maxlens, valueChoices, statics) ==
    {[DefaultKw EXCEPT !.length = l, !.max_length = m, !.blank = b,
                       !.required = r, !.values = v, !.static_value = s] :
        l \in lens, m \in maxlens, b \in BOOLEAN, r \in BOOLEAN,
        v \in valueChoices, s \in statics}

\* the field declarations checked
FieldDecls ==
    {[kind |-> "string", kw |-> kw] : kw \in
        FieldKwChoices(FieldLens, FieldLens,
            {NoValues, ValuesOf({PyStr(<<"A">>), PyStr(<<"N">>)})}, {<<>>})}
    \cup {[kind |-> "integer", kw |-> kw] : kw \in
        FieldKwChoices(FieldLens, FieldLens,
            {NoValues, ValuesOf({PyInt(1), PyInt(2)})}, {<<>>})}
    \cup {[kind |-> "shortdate", kw |-> kw] : kw \in
        FieldKwChoices({NoneInt}, {NoneInt, 1, 6}, {NoValues}, {<<>>})}
    \cup {[kind |-> "date", kw |-> kw] : kw \in
        FieldKwChoices({NoneInt}, {NoneInt, 1, 8}, {NoValues}, {<<>>})}
    \cup {[kind |-> "currency", kw |-> kw] : kw \in
        FieldKwChoices({NoneInt}, {NoneInt, 1, 3}, {NoValues}, {<<>>})}
    \cup {[kind |-> "static", kw |-> kw] : kw \in
        FieldKwChoices({NoneInt}, FieldLens, {NoValues},
            {<<"V">>, <<"0", "4">>})}

\* the raw values handed to process
RawValues ==
    {PyNone}
    \cup {PyStr(t) : t \in TextsUpTo({"A", "1", "\n"}, MaxTextLen)}
    \cup {PyStr(<<"E", "U", "R">>), PyStr(<<"V">>), PyStr(<<"0", "4">>)}
    \cup {PyInt(n) : n \in {0, 1, 2, 7, 10, 100, -1, -10}}
    \cup {PyDate(<<2014, 10, 11>>), PyDateTime(<<2014, 10, 11>>),
          PyHolder(<<2014, 10, 11>>), PyDate(<<987, 1, 2>>)}

InitField ==
    /\ fdecl \in FieldDecls
    /\ fld = NoField
    /\ raw \in RawValues
    /\ res = NotRun
    /\ RowIdle /\ log = {} /\ EncIdle /\ ChunkIdle

\* the field is constructed; a constructor that raises leaves no descriptor
ConstructField ==
    /\ fld.kind = "none"
    /\ fld' = Construct(fdecl.kind, fdecl.kw, 0)
    /\ UNCHANGED <<fdecl, raw, res, rowVars, log, encVars, chunkVars>>

\* field.process(raw)
ProcessField ==
    /\ fld.kind # "none"
    /\ res' = Process(fld, raw)
    /\ UNCHANGED <<fdecl, fld, raw, rowVars, log, encVars, chunkVars>>

NextField == ConstructField \/ ProcessField

SpecField == InitField /\ [][NextField]_vars

\* C2: a field with a fixed length n >= 1 and allow_blank false returns text
\* of exactly n characters whenever process returns
C2_FixedLengthExact ==
    (res.st = "ok" /\ fld.length >= 1 /\ ~fld.blank)
        => Len(res.text) = fld.length

\* C3: a field with max_length m returns text of at most m characters
\* whenever process returns
C3_MaxLengthBound ==
    (res.st = "ok" /\ IntTruthy(fld.max_length))
        => Len(res.text) <= fld.max_length

\* C4: a text or integer field declared with a non-empty allowed-value set
\* fails with the validation error on a non-empty raw value outside the set
C4_DisallowedValueFails ==
    (/\ res.st # "notrun"
     /\ fdecl.kind \in {"string", "integer"}
     /\ ValuesTruthy(fdecl.kw.values)
     /\ raw # PyNone /\ raw # PyStr(<<>>)
     /\ raw \notin fdecl.kw.values.elems)
        => res.st = "ValueError"

\* C9: process returns text or fails with ValueError, never with another
\* class of error
C9_OnlyValidationErrors ==
    res.st \in {"notrun", "ok", "ValueError"}

\* ------------------------------------------------------------------------
\* Schema registrar
\* ------------------------------------------------------------------------

\* position of a character in a sequence, 0 when it is not there
IndexIn(seq, c) ==
    IF c \in Range(seq) THEN CHOOSE i \in DOMAIN seq : seq[i] = c ELSE 0

UpperChar(c) ==
    IF IndexIn(LowerLetters, c) # 0 THEN UpperLetters[IndexIn(LowerLetters, c)]
    ELSE c

LowerChar(c) ==
    IF IndexIn(UpperLetters, c) # 0 THEN LowerLetters[IndexIn(UpperLetters, c)]
    ELSE c

\* str.capitalize(): first character upper case, the rest lower case
Capitalize(text) ==
    [i \in DOMAIN text |->
        IF i = 1 THEN UpperChar(text[i]) ELSE LowerChar(text[i])]

RECURSIVE InsertByCounter(_, _)
\* insert an entry after the entries whose creation_counter is not larger
InsertByCounter(sorted, e) ==
    IF sorted = <<>> THEN <<e>>
    ELSE IF Head(sorted).field.creation_counter <= e.field.creation_counter
        THEN <<Head(sorted)>> \o InsertByCounter(Tail(sorted), e)
    ELSE <<e>> \o sorted

RECURSIVE SortByCounter(_)
\* sorted(fields, key=lambda x: x[1].creation_counter), a stable sort
SortByCounter(fields) ==
    IF fields = <<>> THEN <<>>
    ELSE InsertByCounter(SortByCounter(SubSeq(fields, 1, Len(fields) - 1)),
                         fields[Len(fields)])

\* get_declared_fields(bases, attrs): the fields of the class body sorted by
\* creation_counter; a field without a name gets its default name and its
\* index, every field gets its field_name
get_declared_fields(as) ==
    LET fields == SortByCounter(as)
    IN  [i \in DOMAIN fields |->
            [field_name |-> fields[i].field_name,
             field |->
                IF fields[i].field.name = NoneName
                THEN [fields[i].field EXCEPT
                        !.name = Capitalize(
                            ReplaceChar(fields[i].field_name, "_", " ")),
                        !.index = i - 1,
                        !.field_name = fields[i].field_name]
                ELSE [fields[i].field EXCEPT
                        !.field_name = fields[i].field_name]]]

\* FieldBase.feldnummer: index + 1, a TypeError when index is None
feldnummer(field) ==
    IF field.index = NoneInt THEN Raise("TypeError")
    ELSE Ok(FormatD(field.index + 1))

RECURSIVE Join(_, _)
\* separator.join(parts)
Join(separator, parts) ==
    IF parts = <<>> THEN <<>>
    ELSE IF Len(parts) = 1 THEN parts[1]
    ELSE parts[1] \o separator \o Join(separator, Tail(parts))

\* ------------------------------------------------------------------------
\* Row encoder
\* ------------------------------------------------------------------------

\* one item of the generator joined by RowBase.output: the text of a field
\* is encoded, its dropped characters are logged, the later items follow
EncodedField(d, text, field_name, rest) ==
    [st |-> rest.st,
     parts |-> <<normalize_and_encode(d.charset, text)>> \o rest.parts,
     log |-> EncodeLog(d.charset, text, field_name) \cup rest.log]

\* field.process(self.values[field_name]) of the k-th entry of base_fields
ProcessEntry(d, values, k) ==
    Process(d.base_fields[k].field, values[d.base_fields[k].field_name])

RECURSIVE EncodeFields(_, _, _)

\* the k-th item of the generator, given what process returned or raised
\* for the k-th field: an exception ends the generator
EncodeEntry(d, values, k, p) ==
    IF p.st # "ok" THEN [st |-> p.st, parts |-> <<>>, log |-> {}]
    ELSE EncodedField(d, p.text, d.base_fields[k].field_name,
                      EncodeFields(d, values, k + 1))

\* the generator joined by RowBase.output, from field k on: each field is
\* processed and encoded in turn
EncodeFields(d, values, k) ==
    IF k > Len(d.base_fields) THEN [st |-> "ok", parts |-> <<>>, log |-> {}]
    ELSE EncodeEntry(d, values, k, ProcessEntry(d, values, k))

\* the result of RowBase.output, given the outcome e of its generator: the
\* parts joined by the separator and one separator after the last
JoinedOutput(separator, e) ==
    [res |-> IF e.st = "ok" THEN Ok(Join(separator, e.parts) \o separator)
             ELSE Raise(e.st),
     log |-> e.log]

\* the result as it would be without `+ self.separator`
JoinedOutput_NoTrailing(separator, e) ==
    [res |-> IF e.st = "ok" THEN Ok(Join(separator, e.parts))
             ELSE Raise(e.st),
     log |-> e.log]

\* RowBase.output as it would be without `+ self.separator`
RowBase_output_NoTrailing(d, values) ==
    JoinedOutput_NoTrailing(d.separator, EncodeFields(d, values, 1))

\* RowBase.output: the encoded fields joined by the separator, and one
\* separator after the last
RowBase_output(d, values) ==
    JoinedOutput(d.separator, EncodeFields(d, values, 1))

\* the length the header row asserts
HeaderLength == 128

\* `assert len(output) == 128` on the result o of RowBase.output
AssertLength(o) ==
    IF o.res.st = "ok" /\ Len(o.res.text) # HeaderLength
    THEN [res |-> Raise("AssertionError"), log |-> o.log]
    ELSE o

\* VorlaufZeile.output: RowBase.output and the assertion on its length
VorlaufZeile_output(d, values) == AssertLength(RowBase_output(d, values))

\* row.output, dispatched on the row class
RowOutput(d, values) ==
    IF d.header THEN VorlaufZeile_output(d, values)
    ELSE RowBase_output(d, values)

\* ------------------------------------------------------------------------
\* Spec: a row class is declared, rows are made and encoded
\* ------------------------------------------------------------------------

\* most fields a declared row class has
MaxFields == 2

\* most row instances made
MaxRows == 2

\* the attribute names of the class body, in the order they are bound
AttrNames == <<<<"a", "_", "b">>, <<"n", "R">>, <<"c">>, <<"d", "_">>>>

\* the field declarations a class body draws from
RowFieldChoices ==
    {[kind |-> "string", kw |-> [DefaultKw EXCEPT !.max_length = 2]],
     [kind |-> "integer",
      kw |-> [DefaultKw EXCEPT !.length = 1, !.name = <<"N", "r">>]],
     [kind |-> "static", kw |-> [DefaultKw EXCEPT !.static_value = <<"A">>]]}

\* the separator and charset a row class sets: the defaults of RowBase, and
\* the separator and charset of the tests
RowClassChoices ==
    {[separator |-> <<";">>, charset |-> charset_translations],
     [separator |-> <<"_">>, charset |-> [c \in {"a"} |-> <<"b">>]]}

\* the raw values a row is made with
RowValues == {PyInt(1), PyStr(<<"U+FB01", ";">>)}

InitRows ==
    /\ creation_counter = 0
    /\ pool = <<>>
    /\ attrs = <<>>
    /\ def = NoDef
    /\ rows = <<>>
    /\ log = {}
    /\ FieldIdle /\ EncIdle /\ ChunkIdle

\* a field constructor runs: the descriptor takes the next creation number
NewField(decl) ==
    /\ ~def.declared
    /\ creation_counter < MaxFields
    /\ Construct(decl.kind, decl.kw, creation_counter).kind # "none"
    /\ pool' = Append(pool, Construct(decl.kind, decl.kw, creation_counter))
    /\ creation_counter' = creation_counter + 1
    /\ UNCHANGED <<attrs, def, rows, log, fieldVars, encVars,
                   chunkVars>>

\* the class body binds a constructed descriptor to its next attribute name
AssignAttr(i) ==
    /\ ~def.declared
    /\ i \in DOMAIN pool
    /\ attrs' = Append(attrs, [field_name |-> AttrNames[Len(attrs) + 1],
                               field |-> pool[i]])
    /\ pool' = [j \in 1..(Len(pool) - 1) |->
                    IF j < i THEN pool[j] ELSE pool[j + 1]]
    /\ UNCHANGED <<creation_counter, def, rows, log, fieldVars,
                   encVars, chunkVars>>

\* RowMeta.__new__: the class is created, base_fields = get_declared_fields
DeclareRow(cls) ==
    /\ ~def.declared
    /\ pool = <<>>
    /\ def' = [declared |-> TRUE,
               base_fields |-> get_declared_fields(attrs),
               separator |-> cls.separator,
               charset |-> cls.charset,
               header |-> FALSE]
    /\ attrs' = <<>>
    /\ UNCHANGED <<creation_counter, pool, rows, log, fieldVars,
                   encVars, chunkVars>>

\* the field names of the declared class
FieldNames(d) == {d.base_fields[i].field_name : i \in DOMAIN d.base_fields}

\* kwargs.get(field_name)
KwargsGet(kwargs, field_name) ==
    IF field_name \in DOMAIN kwargs THEN kwargs[field_name] ELSE PyNone

\* RowBase.__init__(**kwargs): values[field_name] = kwargs.get(field_name)
NewRow(kwargs) ==
    /\ def.declared
    /\ Len(rows) < MaxRows
    /\ rows' = Append(rows,
            [kwargs |-> kwargs,
             values |-> [fn \in FieldNames(def) |-> KwargsGet(kwargs, fn)],
             first |-> NotRun,
             last |-> NotRun])
    /\ UNCHANGED <<creation_counter, pool, attrs, def, log,
                   fieldVars, encVars, chunkVars>>

\* the result o of row.output is kept as the first and as the latest result
\* of the row, its messages are logged
Returned(r, o) ==
    /\ rows' = [rows EXCEPT
                ![r].first = IF @.st = "notrun" THEN o.res ELSE @,
                ![r].last = o.res]
    /\ log' = log \cup o.log

\* a base_fields entry whose descriptor keeps the text p that process
\* returned for it (`field.value = ...`, the setter of FieldBase.value)
Stored(entry, p) ==
    IF p.st = "ok" THEN [entry EXCEPT !.field._value = PyStr(p.text)]
    ELSE entry

\* row.output as it would be if it bound each value to its descriptor
\* before encoding
Output_Storing(r) ==
    /\ r \in DOMAIN rows
    /\ Returned(r, RowOutput(def, rows[r].values))
    /\ def' = [def EXCEPT !.base_fields =
                [i \in DOMAIN @ |->
                    Stored(@[i], ProcessEntry(def, rows[r].values, i))]]
    /\ UNCHANGED <<creation_counter, pool, attrs, fieldVars, encVars,
                   chunkVars>>

\* row.output is read: the descriptors are only read
Output(r) ==
    /\ r \in DOMAIN rows
    /\ Returned(r, RowOutput(def, rows[r].values))
    /\ UNCHANGED <<creation_counter, pool, attrs, def, fieldVars, encVars,
                   chunkVars>>

Next ==
    \/ \E decl \in RowFieldChoices : NewField(decl)
    \/ \E i \in 1..MaxFields : AssignAttr(i)
    \/ \E cls \in RowClassChoices : DeclareRow(cls)
    \/ \E S \in SUBSET FieldNames(def) : \E kwargs \in [S -> RowValues] :
            NewRow(kwargs)
    \/ \E r \in 1..MaxRows : Output(r)

Spec == InitRows /\ [][Next]_vars

\* the entries of base_fields, as a set
FieldEntries(d) == Range(d.base_fields)

\* the k-th declared field: the one with k - 1 fields created before it
DeclaredField(d, k) ==
    CHOOSE e \in FieldEntries(d) :
        Cardinality({g \in FieldEntries(d) :
            g.field.creation_counter < e.field.creation_counter}) = k - 1

\* the text of the k-th declared field of a row, from the keyword arguments
\* the row was made with
DeclaredText(d, row, k) ==
    Process(DeclaredField(d, k).field,
            KwargsGet(row.kwargs, DeclaredField(d, k).field_name))

\* every field of the row validates
AllValidate(d, row) ==
    \A k \in 1..Len(d.base_fields) : DeclaredText(d, row, k).st = "ok"

RECURSIVE DelimitedFrom(_, _, _)
\* enc(f_k) d enc(f_k+1) d ... enc(f_n) d
DelimitedFrom(d, row, k) ==
    IF k > Len(d.base_fields) THEN <<>>
    ELSE normalize_and_encode(d.charset, DeclaredText(d, row, k).text)
            \o d.separator \o DelimitedFrom(d, row, k + 1)

\* C1: the output of a row whose n >= 1 fields all validate is the encoded
\* text of each field in declaration order, each followed by the delimiter;
\* a field absent from the keyword arguments is processed as None
C1_OutputIsDelimitedFields ==
    \A r \in DOMAIN rows :
        (/\ rows[r].last.st # "notrun"
         /\ Len(def.base_fields) >= 1
         /\ ~def.header
         /\ AllValidate(def, rows[r]))
            => rows[r].last = Ok(DelimitedFrom(def, rows[r], 1))

\* a row of two fields, bound in the class body in the reverse of their
\* creation order, one of them absent from the keyword arguments, encoded
C1_Witness ==
    \E r \in DOMAIN rows :
        /\ rows[r].last.st = "ok"
        /\ Len(def.base_fields) = 2
        /\ def.base_fields[1].field_name = AttrNames[2]
        /\ DOMAIN rows[r].kwargs # FieldNames(def)
        /\ DOMAIN rows[r].kwargs # {}
        /\ Len(rows[r].last.text) > 2 * Len(def.separator)

\* C7: the ordinals of the fields of a declared row class are 0..n-1 in
\* declaration order, and the column number of the k-th field is k
C7_OrdinalsDense ==
    def.declared =>
        \A k \in DOMAIN def.base_fields :
            /\ DeclaredField(def, k).field.index = k - 1
            /\ feldnummer(DeclaredField(def, k).field) = Ok(FormatD(k))

\* C10: no step changes the declared row class or its descriptors, nor the
\* values of a row, and a row that was encoded keeps its first result as
\* the result of every later encoding
C10_OutputIsPure ==
    [][/\ def.declared => def' = def
       /\ \A r \in DOMAIN rows :
            /\ rows'[r].values = rows[r].values
            /\ rows[r].first.st # "notrun" =>
                    /\ rows'[r].first = rows[r].first
                    /\ rows'[r].last = rows[r].first]_vars

\* two rows of one class were encoded, one returned bytes and logged a
\* character it dropped, the other failed validation
C10_Witness ==
    /\ Len(rows) >= 2
    /\ rows[1].last.st = "ok"
    /\ rows[2].last.st = "ValueError"
    /\ rows[1].last = rows[1].first
    /\ log # {}
    /\ \A i \in DOMAIN def.base_fields :
            def.base_fields[i].field._value = PyNone

\* ------------------------------------------------------------------------
\* SpecHeader: the header row VorlaufZeile is made and encoded
\* ------------------------------------------------------------------------

\* the attribute names of the class body of VorlaufZeile
HeaderNames ==
    <<<<"s", "a", "t", "z", "a", "r", "t", "e", "n", "k", "e", "n", "n", "z", "e", "i", "c", "h", "e", "n">>,
      <<"d", "u", "m", "m", "y">>,
      <<"e", "r", "s", "t", "e", "l", "l", "u", "n", "g", "s", "d", "a", "t", "u", "m">>,
      <<"i", "n", "f", "o", "r", "m", "a", "t", "i", "o", "n", "s", "t", "e", "x", "t", "1">>,
      <<"i", "n", "f", "o", "r", "m", "a", "t", "i", "o", "n", "s", "t", "e", "x", "t", "2">>,
      <<"i", "n", "f", "o", "r", "m", "a", "t", "i", "o", "n", "s", "t", "e", "x", "t", "3">>,
      <<"v", "e", "r", "s", "i", "o", "n">>,
      <<"w", "a", "e", "h", "r", "u", "n", "g", "s", "k", "e", "n", "n", "z", "e", "i", "c", "h", "e", "n">>>>

\* the field constructors of the class body of VorlaufZeile, in order
HeaderFieldDecls ==
    <<[kind |-> "static", kw |-> [DefaultKw EXCEPT !.static_value = <<"V">>]],
      [kind |-> "static", kw |-> [DefaultKw EXCEPT !.static_value = <<" ">>]],
      [kind |-> "shortdate", kw |-> DefaultKw],
      [kind |-> "string", kw |-> [DefaultKw EXCEPT !.length = 40]],
      [kind |-> "string", kw |-> [DefaultKw EXCEPT !.length = 40]],
      [kind |-> "string", kw |-> [DefaultKw EXCEPT !.length = 35]],
      [kind |-> "static",
       kw |-> [DefaultKw EXCEPT !.static_value = <<"0", "4">>]],
      [kind |-> "static",
       kw |-> [DefaultKw EXCEPT !.static_value = <<"E", "U", "R">>]]>>

\* class VorlaufZeile(RowBase): its fields registered by RowMeta, its
\* separator b"", the default charset, its own output
VorlaufZeile ==
    [declared |-> TRUE,
     base_fields |-> get_declared_fields(
        [i \in DOMAIN HeaderNames |->
            [field_name |-> HeaderNames[i],
             field |-> Construct(HeaderFieldDecls[i].kind,
                                 HeaderFieldDecls[i].kw, i - 1)]]),
     separator |-> <<>>,
     charset |-> charset_translations,
     header |-> TRUE]

\* " " * n
Spaces(n) == [i \in 1..n |-> " "]

\* the keyword arguments made of a set of <<name, value>> pairs
KwOf(pairs) ==
    [fn \in {p[1] : p \in pairs} |-> (CHOOSE p \in pairs : p[1] = fn)[2]]

\* the keyword arguments a header row is made with
HeaderKwargs ==
    {KwOf(d \cup t1 \cup t2 \cup t3 \cup w) :
        d \in {{}, {<<HeaderNames[3], PyDate(<<2014, 10, 11>>)>>},
               {<<HeaderNames[3], PyDateTime(<<2014, 10, 11>>)>>}},
        t1 \in {{<<HeaderNames[4], PyStr(txt)>>} : txt \in
                    {Spaces(40), Spaces(39), <<"U+00B0">> \o Spaces(39),
                     <<";">> \o Spaces(39)}},
        t2 \in {{<<HeaderNames[5], PyStr(txt)>>} : txt \in
                    {Spaces(40), <<"U+FB01">> \o Spaces(39)}},
        t3 \in {{}} \cup {{<<HeaderNames[6], PyStr(txt)>>} : txt \in
                    {Spaces(35), <<"U+00FC">> \o Spaces(34)}},
        w \in {{}, {<<HeaderNames[8], PyStr(<<"E", "U", "R">>)>>},
               {<<HeaderNames[8], PyStr(<<"U", "S", "D">>)>>}}}

\* the module rows is imported: VorlaufZeile is declared, its eight field
\* constructors have run; one header row is made
InitHeader ==
    /\ creation_counter = Len(HeaderNames)
    /\ pool = <<>>
    /\ attrs = <<>>
    /\ def = VorlaufZeile
    /\ rows \in {<<[kwargs |-> kwargs,
                    values |-> [fn \in FieldNames(VorlaufZeile) |->
                                    KwargsGet(kwargs, fn)],
                    first |-> NotRun,
                    last |-> NotRun]>> : kwargs \in HeaderKwargs}
    /\ log = {}
    /\ FieldIdle /\ EncIdle /\ ChunkIdle

NextHeader == \E r \in 1..MaxRows : Output(r)

SpecHeader == InitHeader /\ [][NextHeader]_vars

\* C8: a header row whose fields all validate is encoded, to 128 bytes
C8_HeaderIs128Bytes ==
    \A r \in DOMAIN rows :
        (/\ def.header
         /\ rows[r].last.st # "notrun"
         /\ AllValidate(def, rows[r]))
            => /\ rows[r].last.st = "ok"
               /\ Len(rows[r].last.text) = HeaderLength

\* ------------------------------------------------------------------------
\* SpecEnc: the charset encoder is called on a text
\* ------------------------------------------------------------------------

\* longest text handed to the charset encoder
MaxEncLen == 3

\* the characters of the texts encoded
EncAlphabet == {"a", "u", ";", "U+FB01", "U+0308", "U+00DF"}

\* the charset tables: the default, the table of the tests, a table with a
\* two-byte sequence, the empty table
EncCharsets ==
    {charset_translations,
     [c \in {"a"} |-> <<"b">>],
     [c \in {"a", "U+00FC"} |-> IF c = "a" THEN <<"b">> ELSE <<"x", "y">>],
     <<>>}

InitEnc ==
    /\ enc_charset \in EncCharsets
    /\ enc_value \in TextsUpTo(EncAlphabet, MaxEncLen)
    /\ enc_out = NotRun
    /\ log = {}
    /\ FieldIdle /\ RowIdle /\ ChunkIdle

\* normalize_and_encode(enc_charset, enc_value): it logs the characters it
\* drops and returns the bytes; no statement of it raises
Encode ==
    /\ enc_out' = Ok(normalize_and_encode(enc_charset, enc_value))
    /\ log' = log \cup EncodeLog(enc_charset, enc_value, NoneName)
    /\ UNCHANGED <<enc_charset, enc_value, fieldVars, rowVars, chunkVars>>

NextEnc == Encode

SpecEnc == InitEnc /\ [][NextEnc]_vars

RECURSIVE Flatten(_)
\* the concatenation of a sequence of sequences
Flatten(ss) ==
    IF ss = <<>> THEN <<>>
    ELSE Flatten(SubSeq(ss, 1, Len(ss) - 1)) \o ss[Len(ss)]

\* the characters of a text that are keys of a table, in order
MappedChars(charset, text) ==
    LET IsKey(c) == c \in DOMAIN charset IN SelectSeq(text, IsKey)

\* C5: the encoder returns, and returns the in-order concatenation of the
\* table's bytes of the characters of the normalized text that are keys
C5_EncodeDropsUnmapped ==
    enc_out.st # "notrun" =>
        enc_out =
            Ok(Flatten([i \in DOMAIN MappedChars(enc_charset,
                                                 normalize(enc_value)) |->
                enc_charset[MappedChars(enc_charset,
                                        normalize(enc_value))[i]]]))

\* a text was encoded whose normalized form differs from it and has a
\* character without bytes between two characters with bytes
C5_Witness ==
    /\ enc_out.st = "ok"
    /\ normalize(enc_value) # enc_value
    /\ log # {}
    /\ \E j \in 2..(Len(normalize(enc_value)) - 1) :
            /\ normalize(enc_value)[j] \notin DOMAIN enc_charset
            /\ normalize(enc_value)[j - 1] \in DOMAIN enc_charset
            /\ normalize(enc_value)[j + 1] \in DOMAIN enc_charset
    /\ Len(enc_out.text) >= 2

\* ------------------------------------------------------------------------
\* SpecChunk: chunk_text runs, one loop iteration a step
\* ------------------------------------------------------------------------

\* longest text handed to chunk_text
MaxChunkText == 4

\* largest chunk_size handed to chunk_text
MaxChunkSize == 2

\* the model stops appending at this many chunks (a run that ends appends
\* at most one chunk for each character and one for each line)
MaxChunks == MaxChunkText + 2

\* the characters of the texts chunked
ChunkAlphabet == {"a", " ", "-", "\n", "U+FB01"}

\* the characters str.strip() removes
Whitespace == {" ", "\t", "\n", "\r"}

\* the characters str.splitlines() breaks lines at
LineBreaks == {"\n", "\r"}

RECURSIVE SplitLines(_)
\* str.splitlines(): the lines without their line breaks; "\r\n" is one
\* line break; a text that ends in a line break has no empty last line
SplitLines(text) ==
    IF text = <<>> THEN <<>>
    ELSE IF \A i \in DOMAIN text : text[i] \notin LineBreaks THEN <<text>>
    ELSE LET p == CHOOSE i \in DOMAIN text :
                    /\ text[i] \in LineBreaks
                    /\ \A j \in 1..(i - 1) : text[j] \notin LineBreaks
             q == IF text[p] = "\r" /\ p < Len(text) /\ text[p + 1] = "\n"
                  THEN p + 1 ELSE p
         IN  <<SubSeq(text, 1, p - 1)>>
                \o SplitLines(SubSeq(text, q + 1, Len(text)))

RECURSIVE LStrip(_)
LStrip(text) ==
    IF text # <<>> /\ Head(text) \in Whitespace THEN LStrip(Tail(text))
    ELSE text

RECURSIVE RStrip(_)
RStrip(text) ==
    IF text # <<>> /\ text[Len(text)] \in Whitespace
    THEN RStrip(SubSeq(text, 1, Len(text) - 1))
    ELSE text

\* str.strip()
Strip(text) == RStrip(LStrip(text))

\* text.rfind(c): the 0-based position of the last c, -1 when there is none
RFind(text, c) ==
    IF \E i \in DOMAIN text : text[i] = c
    THEN (CHOOSE i \in DOMAIN text :
            text[i] = c /\ \A j \in (i + 1)..Len(text) : text[j] # c) - 1
    ELSE -1

\* separate_at as it would be with a hard cut one character too late
SeparateAt_CutLate(ln, size, c) ==
    IF RFind(SubSeq(ln, 1, size), c) = -1 THEN size + 1
    ELSE RFind(SubSeq(ln, 1, size), c)

\* separate_at: the last split_char among the first chunk_size characters,
\* chunk_size when there is none
SeparateAt(ln, size, c) ==
    IF RFind(SubSeq(ln, 1, size), c) = -1 THEN size
    ELSE RFind(SubSeq(ln, 1, size), c)

InitChunk ==
    /\ ck_text \in TextsUpTo(ChunkAlphabet, MaxChunkText)
    /\ chunk_size \in 1..MaxChunkSize
    /\ split_char \in {" ", "-"}
    /\ lines = <<>>
    /\ line = <<>>
    /\ chunks = <<>>
    /\ pc = "start"
    /\ FieldIdle /\ RowIdle /\ log = {} /\ EncIdle

\* the text is normalized and split into lines, chunks = []
ChunkStart ==
    /\ pc = "start"
    /\ lines' = SplitLines(normalize(ck_text))
    /\ chunks' = <<>>
    /\ pc' = "for"
    /\ UNCHANGED <<ck_text, chunk_size, split_char, line, fieldVars, rowVars,
                   log, encVars>>

\* `for line in lines`: the next line, or the return of chunks
ChunkNextLine ==
    /\ pc = "for"
    /\ IF lines = <<>>
       THEN /\ pc' = "done"
            /\ UNCHANGED <<lines, line>>
       ELSE /\ line' = Head(lines)
            /\ lines' = Tail(lines)
            /\ pc' = "while"
    /\ UNCHANGED <<ck_text, chunk_size, split_char, chunks, fieldVars,
                   rowVars, log, encVars>>

\* one iteration as it would be if the rest of the line began after the
\* position of the cut instead of at it
ChunkIterate_SkippingCut ==
    /\ pc = "while"
    /\ Len(chunks) < MaxChunks
    /\ LET stripped == Strip(line)
           separate_at == SeparateAt(stripped, chunk_size, split_char)
       IN  IF Len(stripped) > chunk_size
           THEN /\ chunks' = Append(chunks, SubSeq(stripped, 1, separate_at))
                /\ line' = SubSeq(stripped, separate_at + 2, Len(stripped))
                /\ pc' = "while"
           ELSE /\ chunks' = Append(chunks, stripped)
                /\ line' = stripped
                /\ pc' = "for"
    /\ UNCHANGED <<ck_text, chunk_size, split_char, lines, fieldVars,
                   rowVars, log, encVars>>

\* one iteration of `while True`: the line is stripped; a line longer than
\* chunk_size is cut at separate_at, a chunk is appended and the loop goes
\* on with the rest; a shorter line is appended and the loop is left
ChunkIterate ==
    /\ pc = "while"
    /\ Len(chunks) < MaxChunks
    /\ LET stripped == Strip(line)
           separate_at == SeparateAt(stripped, chunk_size, split_char)
       IN  IF Len(stripped) > chunk_size
           THEN /\ chunks' = Append(chunks, SubSeq(stripped, 1, separate_at))
                /\ line' = SubSeq(stripped, separate_at + 1, Len(stripped))
                /\ pc' = "while"
           ELSE /\ chunks' = Append(chunks, stripped)
                /\ line' = stripped
                /\ pc' = "for"
    /\ UNCHANGED <<ck_text, chunk_size, split_char, lines, fieldVars,
                   rowVars, log, encVars>>

NextChunk == ChunkStart \/ ChunkNextLine \/ ChunkIterate

SpecChunk == InitChunk /\ [][NextChunk]_vars

\* C6: no segment of the text chunker is longer than max_width
C6_ChunksWithinWidth ==
    \A i \in DOMAIN chunks : Len(chunks[i]) <= chunk_size

\* chunk_text returned after a cut at a split character (a segment shorter
\* than the width, followed by another) and a hard cut (a segment of the
\* full width, followed by another of the same line)
C6_Witness ==
    /\ pc = "done"
    /\ chunk_size >= 2
    /\ Len(SplitLines(normalize(ck_text))) = 1
    /\ Len(chunks) >= 3
    /\ \E i \in 1..(Len(chunks) - 1) : Len(chunks[i]) = chunk_size
    /\ \E i \in 1..(Len(chunks) - 1) :
            Len(chunks[i]) > 0 /\ Len(chunks[i]) < chunk_size

\* C11: the text chunker terminates: every iteration of the loop over a line
\* that appends a non-final chunk (the loop goes on with the rest) leaves a
\* strictly shorter line, whatever the split character
C11_NonFinalChunkShortensLine ==
    [][(pc = "while" /\ pc' = "while") => Len(line') < Len(line)]_vars

\* a character that is not whitespace
NotWhitespace(c) == c \notin Whitespace

\* a text with all its whitespace deleted
DeleteWhitespace(text) == SelectSeq(text, NotWhitespace)

\* C12: the text chunker loses no content: with the default split character,
\* the returned segments, concatenated in order and with all whitespace
\* deleted, are the normalized text with all whitespace deleted
C12_NoContentLost ==
    (pc = "done" /\ split_char = " ")
        => DeleteWhitespace(Flatten(chunks))
            = DeleteWhitespace(normalize(ck_text))

\* chunk_text returned, with the default split character, the segments of
\* a one-line text holding whitespace, after a cut at a space (a segment
\* shorter than the width, followed by another) and a hard cut (a segment
\* of the full width without a space, followed by another)
C12_Witness ==
    /\ pc = "done"
    /\ split_char = " "
    /\ Len(SplitLines(normalize(ck_text))) = 1
    /\ DeleteWhitespace(normalize(ck_text)) # normalize(ck_text)
    /\ Len(chunks) >= 3
    /\ \E i \in 1..(Len(chunks) - 1) :
            /\ Len(chunks[i]) = chunk_size
            /\ DeleteWhitespace(chunks[i]) = chunks[i]
    /\ \E i \in 1..(Len(chunks) - 1) :
            Len(chunks[i]) > 0 /\ Len(chunks[i]) < chunk_size

====
